---- MODULE Spec2Model ----
(***************************************************************************)
(* State machine of the TapaPalavras game server (src/src/index.ts): the   *)
(* room store, the timer registry and the Socket.IO event handlers          *)
(* create-room, join-room, start-game, select-letter, pass-turn,            *)
(* disconnect, plus the setTimeout callbacks that end a turn.               *)
(*                                                                         *)
(* Node runs every handler and every timer callback to completion on one   *)
(* thread, so each handler is one atomic action. A handler is written as   *)
(* an operator from the current state to its result: the new room store,   *)
(* the new timers and the events it emits, in order (field out). The       *)
(* action of the handler installs that result.                              *)
(*                                                                         *)
(* Encoding of values:                                                      *)
(*   socket ids      1..NumConns  (an id is never reused after disconnect)  *)
(*   room codes      1..NumRooms  are the upper-case codes nanoid yields;   *)
(*                   -k is the same code typed in lower case by a client    *)
(*   letters         1..DeckSize is the deck (gameLetters), DeckSize+1 is   *)
(*                   a symbol that is not on the board                      *)
(*   Undefined (0)   JavaScript undefined / a falsy payload ('' or absent)  *)
(* Player.name, currentTurnStartTime and the snapshots carried inside      *)
(* events are payload only (no handler reads them) and are left out.        *)
(***************************************************************************)
EXTENDS Integers, Sequences, FiniteSets

\* ------------------------------------------------------------------ bounds
\* sockets that ever connect
NumConns == 2
\* codes nanoid can return
NumRooms == 1
\* symbols of gameLetters (20 in the source)
DeckSize == 4
\* players over all rooms
MaxPlayers == 3
\* timeouts pending at once
MaxPending == 2
\* a client picks among the first Picks board letters not used yet
Picks == 1

timeLimit == 10000

Undefined == 0
Conns == 1..NumConns
RoomIds == 1..NumRooms
CodePayloads == RoomIds \cup {-1}
gameLetters == 1..DeckSize
OffDeck == DeckSize + 1
ThemePayloads == {Undefined, 1}

VARIABLES
  sockets,       \* ids of the connected sockets
  gone,          \* ids of sockets that have disconnected
  rooms,         \* const rooms = new Map<string, Room>()
  activeTimers,  \* const activeTimers = new Map<string, NodeJS.Timeout>()
  pending,       \* timeouts scheduled in the event loop, not fired, not cleared
  last,          \* history: the last handler that changed the room store or the sockets
  turnLog        \* history, per room: active players over the current run of pass-turns

vars == <<sockets, gone, rooms, activeTimers, pending, last, turnLog>>

\* ------------------------------------------------------------------ helpers
Put(f, k, v) == [x \in DOMAIN f \cup {k} |-> IF x = k THEN v ELSE f[x]]
Del(f, k) == [x \in DOMAIN f \ {k} |-> f[x]]
Min(S) == CHOOSE x \in S : \A y \in S : x <= y
Range(s) == {s[i] : i \in DOMAIN s}
RemoveAt(s, i) == SubSeq(s, 1, i - 1) \o SubSeq(s, i + 1, Len(s))
TotalPlayers(rs) == Cardinality(UNION {{<<r, i>> : i \in DOMAIN rs[r].players} : r \in DOMAIN rs})

\* generateRandomLetters(): gameLetters.sort(() => Math.random() - 0.5) returns the
\* same symbols in some order. No handler reads the order, so two outcomes of the
\* shuffle are enumerated: the order of the source and its reverse.
generateRandomLetters ==
  {[i \in 1..DeckSize |-> i], [i \in 1..DeckSize |-> DeckSize + 1 - i]}

\* The letter payloads tried on a room: nothing, a symbol that is not on the board,
\* every letter already used, and the first Picks board letters not used yet.
LetterPayloads(room) ==
  LET free == {i \in DOMAIN room.letters : room.letters[i] \notin Range(room.usedLetters)}
      firstFree == {i \in free : Cardinality({j \in free : j < i}) < Picks}
  IN {Undefined, OffDeck} \cup Range(room.usedLetters) \cup {room.letters[i] : i \in firstFree}

\* String.prototype.toUpperCase on a room code
toUpperCase(code) == IF code < 0 THEN -code ELSE code

\* Array.prototype.findIndex((p) => p.id === id), 1-based; 0 stands for -1
FindIndex(players, id) ==
  IF \E i \in DOMAIN players : players[i].id = id
  THEN Min({i \in DOMAIN players : players[i].id = id})
  ELSE 0

getTimerKey(roomId, playerId) == <<roomId, playerId>>

\* The state a handler starts from, and the shape of its result.
Here == [rooms |-> rooms, activeTimers |-> activeTimers, pending |-> pending, out |-> <<>>]
Emit(S, ev) == [S EXCEPT !.out = Append(@, ev)]

clearPlayerTimer(S, roomId, playerId) ==
  LET timerKey == getTimerKey(roomId, playerId) IN
  IF timerKey \in DOMAIN S.activeTimers
  THEN [S EXCEPT !.activeTimers = Del(@, timerKey),
                 !.pending = {t \in @ : t.id # S.activeTimers[timerKey]}]
  ELSE S

\* room.players.forEach((p) => clearPlayerTimer(roomId, p.id))
RECURSIVE clearAll(_, _, _)
clearAll(S, roomId, players) ==
  IF players = <<>> THEN S
  ELSE clearAll(clearPlayerTimer(S, roomId, Head(players).id), roomId, Tail(players))

\* a turn started without setTimeout
scheduleTimer_Never(S, roomId, playerId) == S

\* const timeoutId = setTimeout(callback, room.timeLimit); activeTimers.set(timerKey, timeoutId)
\* The callback closes over roomId and the player id; a handle is an opaque value,
\* taken here as the least one not held by a pending timeout.
scheduleTimer(S, roomId, playerId) ==
  LET h == Min({n \in 1..(Cardinality(S.pending) + 1) : \A t \in S.pending : t.id # n}) IN
  [S EXCEPT !.activeTimers = Put(@, getTimerKey(roomId, playerId), h),
            !.pending = @ \cup {[id |-> h, roomId |-> roomId, playerId |-> playerId]}]

\* ------------------------------------------------------------------ events
Err(c, message) == [ev |-> "error", to |-> "socket", target |-> c, message |-> message]
TurnChanged(roomId, prev, next, usedLetter) ==
  [ev |-> "turn-changed", to |-> "room", target |-> roomId,
   previousPlayerId |-> prev, activePlayerId |-> next, usedLetter |-> usedLetter]
Emitted(S, ev, roomId) == \E i \in DOMAIN S.out : S.out[i].ev = ev /\ S.out[i].target = roomId

\* ------------------------------------------------------------------ handlers
\* socket.on('create-room'): roomId is whatever nanoid(6).toUpperCase() returns
createRoom(c, roomId, letters) ==
  LET player == [id |-> c, isHost |-> TRUE]
      room == [id |-> roomId, players |-> <<player>>, currentTheme |-> Undefined,
               letters |-> letters, usedLetters |-> <<>>, selectedLetter |-> Undefined,
               activePlayerId |-> Undefined, timeLimit |-> timeLimit, gameOver |-> FALSE]
  IN Emit([Here EXCEPT !.rooms = Put(@, roomId, room)],
          [ev |-> "room-created", to |-> "socket", target |-> c, roomId |-> roomId])

\* join-room that also clears the letter selected in the room
joinRoom_ClearsSelection(c, code) ==
  LET roomId == toUpperCase(code) IN
  IF roomId \notin DOMAIN rooms
  THEN Emit(Here, Err(c, "Room not found"))
  ELSE
  LET player == [id |-> c, isHost |-> FALSE]
      S1 == [Here EXCEPT !.rooms[roomId].players = Append(@, player),
                         !.rooms[roomId].selectedLetter = Undefined]
  IN Emit(Emit(S1, [ev |-> "room-joined", to |-> "socket", target |-> c, roomId |-> roomId]),
          [ev |-> "player-joined", to |-> "room", target |-> roomId, playerId |-> c])

\* socket.on('join-room')
joinRoom(c, code) ==
  LET roomId == toUpperCase(code) IN
  IF roomId \notin DOMAIN rooms
  THEN Emit(Here, Err(c, "Room not found"))
  ELSE
  LET player == [id |-> c, isHost |-> FALSE]
      S1 == [Here EXCEPT !.rooms[roomId].players = Append(@, player)]
  IN Emit(Emit(S1, [ev |-> "room-joined", to |-> "socket", target |-> c, roomId |-> roomId]),
          [ev |-> "player-joined", to |-> "room", target |-> roomId, playerId |-> c])

\* start-game without the host check of line 147
startGame_AnyPlayer(c, roomId, theme, letters, i) ==
  IF roomId \notin DOMAIN rooms THEN Here
  ELSE
  LET room == rooms[roomId]
      idx == FindIndex(room.players, c)
  IN
  IF idx = 0 THEN Here
  ELSE IF theme = Undefined
  THEN Emit(Here, Err(c, "A theme is required to start the game"))
  ELSE
  LET S1 == clearAll(Here, roomId, room.players)
      firstPlayerId == room.players[i].id
      S2 == [S1 EXCEPT !.rooms[roomId] =
               [room EXCEPT !.currentTheme = theme, !.usedLetters = <<>>,
                            !.selectedLetter = Undefined, !.gameOver = FALSE,
                            !.letters = letters, !.activePlayerId = firstPlayerId]]
      S3 == Emit(S2, [ev |-> "game-started", to |-> "room", target |-> roomId,
                      theme |-> theme, activePlayerId |-> firstPlayerId])
  IN scheduleTimer(S3, roomId, firstPlayerId)

\* socket.on('start-game'); letters is what generateRandomLetters() returns and
\* i is Math.floor(Math.random() * room.players.length) + 1
startGame(c, roomId, theme, letters, i) ==
  IF roomId \notin DOMAIN rooms THEN Here
  ELSE
  LET room == rooms[roomId]
      idx == FindIndex(room.players, c)
  IN
  IF idx = 0 \/ ~room.players[idx].isHost THEN Here
  ELSE IF theme = Undefined
  THEN Emit(Here, Err(c, "A theme is required to start the game"))
  ELSE
  LET S1 == clearAll(Here, roomId, room.players)
      firstPlayerId == room.players[i].id
      S2 == [S1 EXCEPT !.rooms[roomId] =
               [room EXCEPT !.currentTheme = theme, !.usedLetters = <<>>,
                            !.selectedLetter = Undefined, !.gameOver = FALSE,
                            !.letters = letters, !.activePlayerId = firstPlayerId]]
      S3 == Emit(S2, [ev |-> "game-started", to |-> "room", target |-> roomId,
                      theme |-> theme, activePlayerId |-> firstPlayerId])
  IN scheduleTimer(S3, roomId, firstPlayerId)

\* select-letter that lets anyone select while no player is active
selectLetter_OpenLobby(c, roomId, letter) ==
  IF roomId \notin DOMAIN rooms THEN Here
  ELSE IF rooms[roomId].activePlayerId # c /\ rooms[roomId].activePlayerId # Undefined
  THEN Emit(Here, Err(c, "Not your turn"))
  ELSE IF letter \in Range(rooms[roomId].usedLetters)
  THEN Emit(Here, Err(c, "Letter already used"))
  ELSE Emit([Here EXCEPT !.rooms[roomId].selectedLetter = letter],
            [ev |-> "letter-selected", to |-> "room", target |-> roomId,
             playerId |-> c, letter |-> letter])

\* select-letter without the usedLetters.includes check of line 211
selectLetter_AnyLetter(c, roomId, letter) ==
  IF roomId \notin DOMAIN rooms THEN Here
  ELSE IF rooms[roomId].activePlayerId # c
  THEN Emit(Here, Err(c, "Not your turn"))
  ELSE Emit([Here EXCEPT !.rooms[roomId].selectedLetter = letter],
            [ev |-> "letter-selected", to |-> "room", target |-> roomId,
             playerId |-> c, letter |-> letter])

\* select-letter that stops the clock of the player who selects
selectLetter_StopsClock(c, roomId, letter) ==
  IF roomId \notin DOMAIN rooms THEN Here
  ELSE IF rooms[roomId].activePlayerId # c
  THEN Emit(Here, Err(c, "Not your turn"))
  ELSE IF letter \in Range(rooms[roomId].usedLetters)
  THEN Emit(Here, Err(c, "Letter already used"))
  ELSE Emit(clearPlayerTimer([Here EXCEPT !.rooms[roomId].selectedLetter = letter], roomId, c),
            [ev |-> "letter-selected", to |-> "room", target |-> roomId,
             playerId |-> c, letter |-> letter])

\* socket.on('select-letter')
selectLetter(c, roomId, letter) ==
  IF roomId \notin DOMAIN rooms THEN Here
  ELSE IF rooms[roomId].activePlayerId # c
  THEN Emit(Here, Err(c, "Not your turn"))
  ELSE IF letter \in Range(rooms[roomId].usedLetters)
  THEN Emit(Here, Err(c, "Letter already used"))
  ELSE Emit([Here EXCEPT !.rooms[roomId].selectedLetter = letter],
            [ev |-> "letter-selected", to |-> "room", target |-> roomId,
             playerId |-> c, letter |-> letter])

\* socket.on('pass-turn')
passTurn(c, roomId) ==
  IF roomId \notin DOMAIN rooms THEN Here
  ELSE IF rooms[roomId].activePlayerId # c
  THEN Emit(Here, Err(c, "Not your turn"))
  ELSE IF rooms[roomId].selectedLetter = Undefined
  THEN Emit(Here, Err(c, "You must select a letter first"))
  ELSE
  LET room == rooms[roomId]
      S1 == clearPlayerTimer(Here, roomId, c)
      usedLetter == room.selectedLetter
      room1 == [room EXCEPT !.usedLetters = Append(@, usedLetter),
                            !.selectedLetter = Undefined]
  IN
  IF Len(room1.usedLetters) >= Len(room1.letters)
  THEN Emit([S1 EXCEPT !.rooms[roomId] = [room1 EXCEPT !.gameOver = TRUE]],
            [ev |-> "game-complete", to |-> "room", target |-> roomId, allLettersUsed |-> TRUE])
  ELSE
  LET currentPlayerIndex == FindIndex(room1.players, c)
      nextPlayerIndex == (currentPlayerIndex % Len(room1.players)) + 1
      nextPlayerId == room1.players[nextPlayerIndex].id
      S2 == [S1 EXCEPT !.rooms[roomId] = [room1 EXCEPT !.activePlayerId = nextPlayerId]]
      S3 == Emit(S2, TurnChanged(roomId, c, nextPlayerId, usedLetter))
  IN scheduleTimer(S3, roomId, nextPlayerId)

\* function endTurn(roomId, playerId)
endTurn(S, roomId, playerId) ==
  IF \/ roomId \notin DOMAIN S.rooms
     \/ S.rooms[roomId].activePlayerId # playerId
     \/ S.rooms[roomId].gameOver
  THEN S
  ELSE clearPlayerTimer(
         Emit([S EXCEPT !.rooms[roomId].gameOver = TRUE],
              [ev |-> "player-lost", to |-> "room", target |-> roomId, playerId |-> playerId]),
         roomId, playerId)

\* The guard of the setTimeout callbacks
timerValid(S, t) ==
  /\ t.roomId \in DOMAIN S.rooms
  /\ S.rooms[t.roomId].activePlayerId = t.playerId
  /\ ~S.rooms[t.roomId].gameOver

\* The setTimeout callback of start-game, pass-turn and disconnect (the three are
\* the same code) for the timeout t that fires.
timerCallback(t) ==
  LET S0 == [Here EXCEPT !.pending = @ \ {t}]
      S1 == IF timerValid(S0, t) THEN endTurn(S0, t.roomId, t.playerId) ELSE S0
  IN [S1 EXCEPT !.activeTimers = Del(@, getTimerKey(t.roomId, t.playerId))]

\* rooms.delete(roomId) of the disconnect handler (the forEach over the emptied
\* players just before it clears nothing)
deleteRoom_Keeps(S, roomId) == S
deleteRoom(S, roomId) == [S EXCEPT !.rooms = Del(@, roomId)]

\* if (player.isHost && room.players.length > 0) room.players[0].isHost = true
promoteHost_Never(room, player) == room
promoteHost(room, player) ==
  IF player.isHost /\ Len(room.players) > 0
  THEN [room EXCEPT !.players[1].isHost = TRUE]
  ELSE room

\* The body of the second rooms.forEach of the disconnect handler, for one room
disconnectRoom(S, roomId, c) ==
  LET playerIndex == FindIndex(S.rooms[roomId].players, c) IN
  IF playerIndex = 0 THEN S
  ELSE
  LET player == S.rooms[roomId].players[playerIndex]
      room == [S.rooms[roomId] EXCEPT !.players = RemoveAt(@, playerIndex)]
      S1 == [S EXCEPT !.rooms[roomId] = room]
  IN
  IF Len(room.players) = 0 THEN deleteRoom(S1, roomId)
  ELSE
  LET repair == room.activePlayerId = c /\ ~room.gameOver
      nextPlayerIndex == ((playerIndex - 1) % Len(room.players)) + 1
      nextPlayerId == room.players[nextPlayerIndex].id
      room1 == IF repair
               THEN [room EXCEPT !.activePlayerId = nextPlayerId, !.selectedLetter = Undefined]
               ELSE room
      S2 == IF repair
            THEN Emit(scheduleTimer(clearPlayerTimer(S1, roomId, c), roomId, nextPlayerId),
                      TurnChanged(roomId, c, nextPlayerId, Undefined))
            ELSE S1
      room2 == promoteHost(room1, player)
  IN Emit([S2 EXCEPT !.rooms[roomId] = room2],
          [ev |-> "player-left", to |-> "room", target |-> roomId, playerId |-> c,
           newHostId |-> IF player.isHost THEN room2.players[1].id ELSE Undefined])

\* rooms.forEach((room, roomId) => clearPlayerTimer(roomId, socket.id))
RECURSIVE clearInRooms(_, _, _)
clearInRooms(S, todo, c) ==
  IF todo = {} THEN S
  ELSE clearInRooms(clearPlayerTimer(S, Min(todo), c), todo \ {Min(todo)}, c)

\* The second rooms.forEach. Rooms are visited in ascending code order; the handler
\* treats each room on its own, so the Map's insertion order only decides the order
\* of events sent to different rooms.
RECURSIVE sweepRooms(_, _, _)
sweepRooms(S, todo, c) ==
  IF todo = {} THEN S
  ELSE sweepRooms(disconnectRoom(S, Min(todo), c), todo \ {Min(todo)}, c)

\* socket.on('disconnect')
disconnect(c) ==
  sweepRooms(clearInRooms(Here, DOMAIN rooms, c), DOMAIN rooms, c)

\* ------------------------------------------------------------------ actions
InProgress(room) == room.activePlayerId # Undefined /\ ~room.gameOver
FreshLog(room) == IF InProgress(room) THEN <<room.activePlayerId>> ELSE <<>>

\* Installs the result S of the handler op run by socket c on roomId. last records
\* the handlers that change the room store or the socket set (force). A room the
\* handler changed other than by rotating the turn or selecting a letter starts a
\* new run of pass-turns.
Install(S, op, c, roomId, rotated, force) ==
  LET same == ~force /\ S.rooms = rooms IN
  /\ Cardinality(S.pending) <= MaxPending
  /\ TotalPlayers(S.rooms) <= MaxPlayers
  /\ rooms' = S.rooms
  /\ activeTimers' = S.activeTimers
  /\ pending' = S.pending
  /\ last' = IF same THEN last ELSE [op |-> op, c |-> c, roomId |-> roomId]
  /\ turnLog' = [r \in DOMAIN S.rooms |->
                   IF r \in DOMAIN rooms /\ S.rooms[r] = rooms[r] THEN turnLog[r]
                   ELSE IF r = roomId /\ rotated
                        THEN (IF rooms[r].gameOver THEN <<>>
                              ELSE Append(turnLog[r], S.rooms[r].activePlayerId))
                   ELSE IF r \in DOMAIN rooms
                           /\ [S.rooms[r] EXCEPT !.selectedLetter = Undefined]
                              = [rooms[r] EXCEPT !.selectedLetter = Undefined]
                        THEN turnLog[r]
                   ELSE FreshLog(S.rooms[r])]

Init ==
  /\ sockets = {}
  /\ gone = {}
  /\ rooms = <<>>
  /\ activeTimers = <<>>
  /\ pending = {}
  /\ last = [op |-> "init", c |-> Undefined, roomId |-> Undefined]
  /\ turnLog = <<>>

\* io.on('connection'): a new socket, whose id is fresh
Connect(c) ==
  /\ c \notin sockets \cup gone
  /\ \A d \in Conns : d < c => d \in sockets \cup gone
  /\ sockets' = sockets \cup {c}
  /\ last' = [op |-> "connection", c |-> c, roomId |-> Undefined]
  /\ UNCHANGED <<gone, rooms, activeTimers, pending, turnLog>>

CreateRoom(c, roomId, letters) ==
  /\ c \in sockets
  /\ Install(createRoom(c, roomId, letters), "create-room", c, roomId, FALSE, FALSE)
  /\ UNCHANGED <<sockets, gone>>

JoinRoom(c, code) ==
  /\ c \in sockets
  /\ Install(joinRoom(c, code), "join-room", c, toUpperCase(code), FALSE, FALSE)
  /\ UNCHANGED <<sockets, gone>>

StartGame(c, roomId, theme) ==
  /\ c \in sockets
  /\ \E letters \in generateRandomLetters,
        i \in IF roomId \in DOMAIN rooms THEN DOMAIN rooms[roomId].players ELSE {1} :
        Install(startGame(c, roomId, theme, letters, i), "start-game", c, roomId, FALSE, FALSE)
  /\ UNCHANGED <<sockets, gone>>

SelectLetter(c, roomId) ==
  /\ c \in sockets
  /\ \E letter \in IF roomId \in DOMAIN rooms THEN LetterPayloads(rooms[roomId])
                   ELSE {Undefined} :
        Install(selectLetter(c, roomId, letter), "select-letter", c, roomId, FALSE, FALSE)
  /\ UNCHANGED <<sockets, gone>>

PassTurn(c, roomId) ==
  /\ c \in sockets
  /\ Install(passTurn(c, roomId), "pass-turn", c, roomId,
             Emitted(passTurn(c, roomId), "turn-changed", roomId), FALSE)
  /\ UNCHANGED <<sockets, gone>>

TimerFire(t) ==
  /\ t \in pending
  /\ Install(timerCallback(t), "timeout", t.playerId, t.roomId, FALSE, FALSE)
  /\ UNCHANGED <<sockets, gone>>

Disconnect(c) ==
  /\ c \in sockets
  /\ sockets' = sockets \ {c}
  /\ gone' = gone \cup {c}
  /\ Install(disconnect(c), "disconnect", c, Undefined, FALSE, TRUE)

\* ------------------------------------------------------------------ claims
Hosts(room) == {i \in DOMAIN room.players : room.players[i].isHost}
Ids(room) == [i \in DOMAIN room.players |-> room.players[i].id]
TimersOf(S, roomId) == {t \in S.pending : t.roomId = roomId}

\* What C1 says a request leaves alone once the game is over
NoTurnEffect(S, r) ==
  /\ S.rooms[r].activePlayerId = rooms[r].activePlayerId
  /\ S.rooms[r].usedLetters = rooms[r].usedLetters
  /\ S.rooms[r].selectedLetter = rooms[r].selectedLetter
  /\ ~Emitted(S, "letter-selected", r)
  /\ ~Emitted(S, "turn-changed", r)
  /\ S.pending \subseteq pending

\* C1: once a room's gameOver is true, every pass-turn and every select-letter, from
\* any connected socket and with any letter, is a no-op: activePlayerId, usedLetters
\* and selectedLetter stay as they are, neither letter-selected nor turn-changed is
\* broadcast and no timer is scheduled.
C1_GameOverIsTerminal ==
  \A r \in DOMAIN rooms : rooms[r].gameOver =>
    \A c \in sockets :
      /\ NoTurnEffect(passTurn(c, r), r)
      /\ \A letter \in LetterPayloads(rooms[r]) : NoTurnEffect(selectLetter(c, r, letter), r)

\* C2: in every room, activePlayerId, when set, is the id of a player of the room.
C2_ActivePlayerIsMember ==
  \A r \in DOMAIN rooms :
    rooms[r].activePlayerId # Undefined =>
      \E i \in DOMAIN rooms[r].players : rooms[r].players[i].id = rooms[r].activePlayerId

\* C3: in every room, every element of usedLetters is an element of letters, and
\* usedLetters holds no more entries than letters.
C3_UsedLettersWithinDeck ==
  \A r \in DOMAIN rooms :
    /\ Range(rooms[r].usedLetters) \subseteq Range(rooms[r].letters)
    /\ Len(rooms[r].usedLetters) <= Len(rooms[r].letters)

\* C4: every room in the store has at least one player, and the disconnect of the
\* socket that is the only player of a room removes the room in that same step.
C4_NoEmptyRoom ==
  /\ \A r \in DOMAIN rooms : Len(rooms[r].players) >= 1
  /\ \A c \in sockets : \A r \in DOMAIN rooms :
       (Len(rooms[r].players) = 1 /\ rooms[r].players[1].id = c)
         => r \notin DOMAIN disconnect(c).rooms

C4_Witness ==
  \E c \in sockets : \E r \in DOMAIN rooms :
    /\ Len(rooms[r].players) = 1 /\ rooms[r].players[1].id = c
    /\ rooms[r].activePlayerId = c
    /\ r \notin DOMAIN disconnect(c).rooms

\* C5: every room in the store has exactly one player with isHost = TRUE; when the
\* host disconnects and players remain, the first player of the shortened list is the
\* host afterwards; a join leaves the hosts as they are and adds a non-host.
C5_ExactlyOneHost ==
  /\ \A r \in DOMAIN rooms : Cardinality(Hosts(rooms[r])) = 1
  /\ \A c \in sockets : \A r \in DOMAIN rooms :
       LET i == FindIndex(rooms[r].players, c)
           after == disconnect(c).rooms
       IN (i # 0 /\ rooms[r].players[i].isHost /\ Len(rooms[r].players) >= 2) =>
            /\ r \in DOMAIN after
            /\ Ids(after[r]) = RemoveAt(Ids(rooms[r]), i)
            /\ Hosts(after[r]) = {1}
  /\ \A c \in sockets : \A code \in CodePayloads :
       LET r == toUpperCase(code)
           after == joinRoom(c, code).rooms
       IN r \in DOMAIN rooms =>
            /\ Hosts(after[r]) = Hosts(rooms[r])
            /\ after[r].players[Len(after[r].players)] = [id |-> c, isHost |-> FALSE]

C5_Witness ==
  /\ last.op = "join-room"
  /\ \E c \in sockets : \E r \in DOMAIN rooms :
       /\ Len(rooms[r].players) >= 2
       /\ rooms[r].players[1] = [id |-> c, isHost |-> TRUE]
       /\ rooms[r].players[2].id # c
       /\ Hosts(disconnect(c).rooms[r]) = {1}
       /\ disconnect(c).rooms[r].players[1].id = rooms[r].players[2].id

\* C6: at every instant at most one timeout is pending per (room, player) pair, so
\* no handler stores a timer under a key while a timeout of that key is pending.
C6_OneTimerPerPair ==
  \A t1, t2 \in pending :
    (t1.roomId = t2.roomId /\ t1.playerId = t2.playerId) => t1 = t2

\* C7: in a game that is not over, every N consecutive successful pass-turns (N the
\* number of players, nothing else touching the room in between, deck not exhausted)
\* bring activePlayerId back to the player who was active at the start, and the N
\* turns go to every player of players exactly once.
C7_RotationIsCyclic ==
  \A r \in DOMAIN rooms :
    LET N == Len(rooms[r].players)
        log == turnLog[r]
    IN InProgress(rooms[r]) =>
         \A k \in DOMAIN log : k + N \in DOMAIN log =>
           /\ log[k + N] = log[k]
           /\ \A c \in Conns :
                Cardinality({j \in k..(k + N - 1) : log[j] = c})
                  = Cardinality({i \in 1..N : rooms[r].players[i].id = c})

\* C9: a successful pass-turn appends the selected letter; when usedLetters then has
\* at least as many entries as letters it sets gameOver, broadcasts game-complete and
\* not turn-changed, leaves activePlayerId as it is and leaves no timer pending for the
\* room; otherwise it leaves gameOver as it is, broadcasts turn-changed and gives the
\* turn to the next player in players order.
C9_PassTurnOutcome ==
  \A r \in DOMAIN rooms : \A c \in sockets :
    (rooms[r].activePlayerId = c /\ rooms[r].selectedLetter # Undefined) =>
      LET room == rooms[r]
          S == passTurn(c, r)
          after == S.rooms[r]
          next == room.players[(FindIndex(room.players, c) % Len(room.players)) + 1].id
      IN /\ after.usedLetters = Append(room.usedLetters, room.selectedLetter)
         /\ IF Len(room.usedLetters) + 1 >= Len(room.letters)
            THEN /\ after.gameOver
                 /\ Emitted(S, "game-complete", r) /\ ~Emitted(S, "turn-changed", r)
                 /\ after.activePlayerId = c
                 /\ TimersOf(S, r) = {}
            ELSE /\ after.gameOver = room.gameOver
                 /\ Emitted(S, "turn-changed", r) /\ ~Emitted(S, "game-complete", r)
                 /\ after.activePlayerId = next

\* C10: when the active player of a game that is not over disconnects and another
\* player remains, the player who followed it in players (wrapping) becomes active,
\* selectedLetter is cleared, usedLetters is unchanged, turn-changed is broadcast with
\* an empty usedLetter, exactly one timer is pending for the room, for the new active
\* player, and none for the departed one.
C10_ActiveDisconnectRepair ==
  \A r \in DOMAIN rooms : \A c \in sockets :
    LET room == rooms[r]
        i == FindIndex(room.players, c)
    IN (/\ room.activePlayerId = c /\ ~room.gameOver /\ i # 0
        /\ \E j \in DOMAIN room.players : room.players[j].id # c) =>
         LET S == disconnect(c)
             after == S.rooms[r]
             next == room.players[(i % Len(room.players)) + 1].id
         IN /\ after.activePlayerId = next
            /\ after.selectedLetter = Undefined
            /\ after.usedLetters = room.usedLetters
            /\ \E n \in DOMAIN S.out : S.out[n] = TurnChanged(r, c, next, Undefined)
            /\ \E t \in S.pending : TimersOf(S, r) = {t} /\ t.playerId = next
            /\ \A t \in TimersOf(S, r) : t.playerId # c

\* C8: a game in progress with active player p leads, unless p passes the turn, p
\* disconnects or a start-game occurs, to the room being over by p's timeout:
\* gameOver set by the timer callback (which broadcasts player-lost {p}),
\* activePlayerId still p and no registry entry left for p.
TimedOut(r, p) ==
  /\ r \in DOMAIN rooms
  /\ rooms[r].gameOver
  /\ rooms[r].activePlayerId = p
  /\ getTimerKey(r, p) \notin DOMAIN activeTimers
  /\ last = [op |-> "timeout", c |-> p, roomId |-> r]
Escaped(r, p) ==
  \/ p \in gone
  \/ last = [op |-> "pass-turn", c |-> p, roomId |-> r]
  \/ last.op = "start-game" /\ last.roomId = r
C8_TimeoutEndsGame ==
  \A r \in RoomIds : \A p \in Conns :
    (r \in DOMAIN rooms /\ rooms[r].activePlayerId = p /\ ~rooms[r].gameOver)
      ~> (TimedOut(r, p) \/ Escaped(r, p))

\* C11: a select-letter (with any letter) or a pass-turn sent for a room of the store by
\* a connected socket that is not the room's activePlayerId, also while no player is
\* active, emits the error "Not your turn" to the requester and nothing else, and leaves
\* the room store, the timer registry and the pending timeouts as they are.
C11_NotYourTurn ==
  \A r \in DOMAIN rooms : \A c \in sockets :
    rooms[r].activePlayerId # c =>
      /\ passTurn(c, r) = Emit(Here, Err(c, "Not your turn"))
      /\ \A letter \in LetterPayloads(rooms[r]) :
           selectLetter(c, r, letter) = Emit(Here, Err(c, "Not your turn"))

C11_Witness ==
  \E r \in DOMAIN rooms : \E c \in sockets :
    /\ InProgress(rooms[r])
    /\ rooms[r].activePlayerId # c
    /\ FindIndex(rooms[r].players, c) # 0
    /\ rooms[r].selectedLetter # Undefined
    /\ TimersOf(Here, r) # {}
    /\ passTurn(c, r).out = <<Err(c, "Not your turn")>>

IsHostOf(room, c) ==
  \E i \in DOMAIN room.players : room.players[i].id = c /\ room.players[i].isHost

\* C12: a start-game for a room of the store sent by a socket that is not the room's
\* host emits nothing and changes nothing, whatever the theme; sent by the host without
\* a theme it emits the error "A theme is required to start the game" to the requester
\* and nothing else; in both cases rooms, registry and pending timeouts are unchanged.
C12_StartGameGuards ==
  \A r \in DOMAIN rooms : \A c \in sockets :
    \A letters \in generateRandomLetters : \A i \in DOMAIN rooms[r].players :
      IF IsHostOf(rooms[r], c)
      THEN startGame(c, r, Undefined, letters, i)
             = Emit(Here, Err(c, "A theme is required to start the game"))
      ELSE \A theme \in ThemePayloads : startGame(c, r, theme, letters, i) = Here

C12_Witness ==
  \E r \in DOMAIN rooms : \E h, c \in sockets :
    /\ InProgress(rooms[r])
    /\ TimersOf(Here, r) # {}
    /\ IsHostOf(rooms[r], h)
    /\ FindIndex(rooms[r].players, c) # 0 /\ ~IsHostOf(rooms[r], c)
    /\ startGame(c, r, 1, rooms[r].letters, 1) = Here
    /\ startGame(h, r, Undefined, rooms[r].letters, 1).out
         = <<Err(h, "A theme is required to start the game")>>

\* activeTimers.set runs exactly where a turn starts, so the timeout of the turn that
\* (roomId, playerId) started last is the one whose handle the registry holds.
Registered(t) ==
  /\ getTimerKey(t.roomId, t.playerId) \in DOMAIN activeTimers
  /\ activeTimers[getTimerKey(t.roomId, t.playerId)] = t.id
EndsGame(t) ==
  \/ Emitted(timerCallback(t), "player-lost", t.roomId)
  \/ /\ t.roomId \in DOMAIN rooms
     /\ ~rooms[t.roomId].gameOver
     /\ timerCallback(t).rooms[t.roomId].gameOver

\* C13: a pending timeout whose callback sets gameOver or broadcasts player-lost is the
\* timeout of the current turn of its player (the one the registry holds for the pair),
\* and its room exists, has that player active and is not over; a timeout of a turn
\* that ended by pass-turn, disconnect or start-game never does so, and a callback that
\* does not end the game leaves the rooms as they are and emits nothing.
C13_OnlyCurrentTurnTimerEndsGame ==
  \A t \in pending :
    /\ EndsGame(t) => (Registered(t) /\ timerValid(Here, t))
    /\ ~EndsGame(t) => (timerCallback(t).rooms = rooms /\ timerCallback(t).out = <<>>)

\* C14: in every room usedLetters holds no letter twice, and selectedLetter, when set,
\* is not an element of usedLetters.
C14_NoLetterTwice ==
  \A r \in DOMAIN rooms :
    /\ \A i, j \in DOMAIN rooms[r].usedLetters :
         rooms[r].usedLetters[i] = rooms[r].usedLetters[j] => i = j
    /\ rooms[r].selectedLetter # Undefined =>
         rooms[r].selectedLetter \notin Range(rooms[r].usedLetters)

C14_Witness ==
  \E r \in DOMAIN rooms : \E c \in sockets :
    /\ Len(rooms[r].usedLetters) >= 2
    /\ rooms[r].selectedLetter # Undefined
    /\ rooms[r].activePlayerId = c
    /\ selectLetter(c, r, rooms[r].usedLetters[1]).out = <<Err(c, "Letter already used")>>

\* C15: the disconnect handler of a connected socket c leaves no room of the store
\* with a player whose id is c and no timeout pending for c in any room.
C15_DisconnectSweepsAll ==
  \A c \in sockets :
    /\ \A r \in DOMAIN disconnect(c).rooms : FindIndex(disconnect(c).rooms[r].players, c) = 0
    /\ \A t \in disconnect(c).pending : t.playerId # c

\* C16: a select-letter by the active player with a letter that is not in usedLetters
\* (also when a letter is selected already) sets selectedLetter to it and changes
\* nothing else: every other field of the room, every other room, the registry and the
\* pending timeouts stay, letter-selected is the only event, and every timeout of the
\* player that could end the game before can still end it.
C16_SelectOnlySelects ==
  \A r \in DOMAIN rooms : \A c \in sockets :
    \A letter \in LetterPayloads(rooms[r]) \ Range(rooms[r].usedLetters) :
      rooms[r].activePlayerId = c =>
        LET S == selectLetter(c, r, letter) IN
        /\ S.rooms = [rooms EXCEPT ![r].selectedLetter = letter]
        /\ S.activeTimers = activeTimers
        /\ S.pending = pending
        /\ S.out = <<[ev |-> "letter-selected", to |-> "room", target |-> r,
                      playerId |-> c, letter |-> letter]>>
        /\ \A t \in pending : timerValid(Here, t) => timerValid(S, t)

C16_Witness ==
  \E r \in DOMAIN rooms : \E c \in sockets : \E t \in pending :
    /\ InProgress(rooms[r]) /\ rooms[r].activePlayerId = c
    /\ rooms[r].selectedLetter # Undefined
    /\ last.op = "select-letter"
    /\ t.roomId = r /\ t.playerId = c /\ Registered(t)
    /\ \E letter \in LetterPayloads(rooms[r]) \ Range(rooms[r].usedLetters) :
         /\ letter \notin {Undefined, rooms[r].selectedLetter}
         /\ selectLetter(c, r, letter).rooms[r].selectedLetter = letter
         /\ EndsGame(t)

\* C17: whatever code nanoid returns, create-room stores the new room under a code that
\* was not a key of the store before, and every room that was in the store is still
\* there afterwards, unchanged.
C17_CreateRoomFreshCode ==
  \A c \in sockets : \A roomId \in RoomIds : \A letters \in generateRandomLetters :
    /\ roomId \notin DOMAIN rooms
    /\ \A r \in DOMAIN rooms :
         /\ r \in DOMAIN createRoom(c, roomId, letters).rooms
         /\ createRoom(c, roomId, letters).rooms[r] = rooms[r]

\* C18: a join-room whose code, put in upper case, is a key of the store appends
\* [id = joiner, isHost = FALSE] at the end of players of that room and changes nothing
\* else (no other field of the room, no other room, no entry of the registry, no pending
\* timeout), in a game in progress as well; for any other code it emits the error
\* "Room not found" to the requester and nothing else, and changes nothing.
C18_JoinTouchesNoTurnState ==
  \A c \in sockets : \A code \in CodePayloads \cup {NumRooms + 1} :
    LET r == toUpperCase(code)
        S == joinRoom(c, code)
    IN IF r \in DOMAIN rooms
       THEN /\ S.rooms = [rooms EXCEPT ![r].players =
                            Append(@, [id |-> c, isHost |-> FALSE])]
            /\ S.activeTimers = activeTimers
            /\ S.pending = pending
       ELSE S = Emit(Here, Err(c, "Room not found"))

C18_Witness ==
  /\ last.op = "join-room"
  /\ \E r \in DOMAIN rooms : \E c \in sockets :
       /\ last.roomId = r /\ last.c = c
       /\ InProgress(rooms[r])
       /\ rooms[r].selectedLetter # Undefined
       /\ rooms[r].usedLetters # <<>>
       /\ rooms[r].activePlayerId # c
       /\ TimersOf(Here, r) # {}
       /\ rooms[r].players[Len(rooms[r].players)] = [id |-> c, isHost |-> FALSE]
       /\ joinRoom(c, NumRooms + 1).out = <<Err(c, "Room not found")>>

\* C19: every pending timeout is keyed by a room of the store and by the
\* activePlayerId of that room, and no room has two pending timeouts.
C19_TimersFollowActivePlayer ==
  /\ \A t \in pending :
       /\ t.roomId \in DOMAIN rooms
       /\ rooms[t.roomId].activePlayerId = t.playerId
  /\ \A t1, t2 \in pending : t1.roomId = t2.roomId => t1 = t2

\* C20: every room with activePlayerId set and gameOver false has a pending timeout
\* for (room, activePlayerId).
C20_ActivePlayerHasTimer ==
  \A r \in DOMAIN rooms :
    InProgress(rooms[r]) =>
      \E t \in pending : t.roomId = r /\ t.playerId = rooms[r].activePlayerId

C20_Witness ==
  /\ last.op = "disconnect"
  /\ \E r \in DOMAIN rooms : \E t \in pending :
       /\ InProgress(rooms[r])
       /\ rooms[r].usedLetters # <<>>
       /\ last.c # rooms[r].activePlayerId
       /\ Len(rooms[r].players) >= 2
       /\ t.roomId = r /\ t.playerId = rooms[r].activePlayerId
       /\ Registered(t) /\ EndsGame(t)

Next ==
  \/ \E c \in Conns : Connect(c)
  \/ \E c \in Conns, r \in RoomIds, l \in generateRandomLetters : CreateRoom(c, r, l)
  \/ \E c \in Conns, code \in CodePayloads : JoinRoom(c, code)
  \/ \E c \in Conns, code \in CodePayloads, theme \in ThemePayloads : StartGame(c, code, theme)
  \/ \E c \in Conns, code \in CodePayloads : SelectLetter(c, code)
  \/ \E c \in Conns, code \in CodePayloads : PassTurn(c, code)
  \/ \E t \in pending : TimerFire(t)
  \/ \E c \in Conns : Disconnect(c)

Spec == Init /\ [][Next]_vars

\* The event loop runs the callback of every pending timeout that is not cleared.
TimerRecords == [id : 1..MaxPending, roomId : RoomIds, playerId : Conns]
FairSpec == Spec /\ \A t \in TimerRecords : WF_vars(TimerFire(t))
====
